---- MODULE Spec2Model ----
(***************************************************************************)
(* Booking / seat contention and notification enqueueing of Afisha.        *)
(*                                                                         *)
(* The store is PostgreSQL at READ COMMITTED (settings.DATABASES): every   *)
(* statement of a transaction reads the committed rows, a row written by   *)
(* a transaction stays write-locked until that transaction ends, and       *)
(* SELECT ... FOR UPDATE holds the event row until the transaction ends.   *)
(* Every request runs in a handler of its own; requests are numbered in    *)
(* the order they arrive, and one action is one statement of the service   *)
(* function the request runs.                                              *)
(***************************************************************************)
EXTENDS Integers, Sequences, FiniteSets, TLC

\* ---------------------------------------------------------------- bounds
MaxCalls == 3
NumUsers == 3
MaxSeats == 2
MaxTime == 2
MaxUpdates == 1

\* Requests, in arrival order.
Calls == 1..MaxCalls
Users == 1..NumUsers
\* Event ids requests name; the ids of DOMAIN events have a row.
EventIds == {1, 2}

\* cancelled_at IS NULL
Null == 0
NoCall == 0

EXPECTED == "expected"
CANCELLED == "cancelled"
FINISHED == "finished"
Status == {EXPECTED, CANCELLED, FINISHED}

VARIABLES
    now,        \* timezone.now()
    events,     \* Event rows: id -> [status, start_at, seats]
    bookings,   \* committed Booking rows: [id, user, event, cancelled_at]
    nextId,     \* the Booking id sequence
    lockE,      \* event id -> the request holding its row FOR UPDATE
    pc,         \* request -> the statement it is at ("new" before it arrives)
    op,         \* request -> the call it runs: [name, user, event]
    loc,        \* request -> locals: active_bookings_count, created, and the
                \*            id and cancelled_at of the instance `booking`
    pend,       \* request -> the uncommitted write of its transaction
    sent,       \* request -> intents it has published
    res,        \* request -> what the call returned or raised, and the
                \*            active bookings of its event right after it
    prior,      \* request -> the requests that had ended when it arrived
    queue,      \* the broker's "fast" queue: intents a worker can take
    nupdates,   \* organizer updates so far
    users,      \* User rows (ids)
    logs,       \* NotificationLog rows
    nextLog,    \* the NotificationLog id sequence
    mails,      \* calls of email_client.send_email, in order
    sched,      \* send_reminder messages held by the broker until their eta
    taken,      \* how many messages of `queue` the worker has taken
    task,       \* the task the "fast" worker is running
    ntasks,     \* tasks the worker has started
    outcomes,   \* what each task the worker ran ended with, in order
    sweeps,     \* what each run of schedule_reminders did, in order
    nticks,     \* steps of the clock so far
    ndeletes,   \* users and events deleted so far
    nfanouts,   \* send_event_cancelled_notification messages sent by hand
    finishes,   \* what each run of finish_events did, in order
    wtask,      \* worker process of the "fast" pool -> the message it runs
    mailsvc,    \* the mail service: its environment, its state, the calls it got
    ratings,    \* Rating rows: [user, event, score]
    ratings_count,  \* event id -> Event.ratings_count
    rates       \* what each rating request ended with, in order

\* The notification side: untouched by the booking calls.
nvars == <<users, logs, nextLog, mails, sched, taken, task, ntasks, outcomes, sweeps,
           nticks, ndeletes, nfanouts>>

\* The lifecycle sweep, the worker pool, the mail service and the ratings.
xvars == <<finishes, wtask, mailsvc, ratings, ratings_count, rates>>

vars == <<now, events, bookings, nextId, lockE, pc, op, loc, pend, sent, res, prior,
          queue, nupdates, users, logs, nextLog, mails, sched, taken, task, ntasks,
          outcomes, sweeps, nticks, ndeletes, nfanouts,
          finishes, wtask, mailsvc, ratings, ratings_count, rates>>

NoOp == [name |-> "none", user |-> 0, event |-> 0]
NoLoc == [active_bookings_count |-> 0, booking |-> 0, created |-> FALSE,
          cancelled_at |-> Null]
NoPend == [kind |-> "none", id |-> 0, cancelled_at |-> Null]
NoRes == [result |-> "none", count |-> 0]
\* The worker is idle.
NoTask == [name |-> "none"]

\* The worker processes of the "fast" pool.
NumWorkers == 2
Workers == 1..NumWorkers
\* A worker process is idle.
NoMsg == [type |-> "none"]

\* The environment of the mail service before load_dotenv, and the service
\* before `serve` runs.
NoEnv == [SMTP_HOST |-> "", SMTP_PORT |-> "", SMTP_USER |-> "", SMTP_PASSWORD |-> "",
          DEFAULT_SENDER |-> ""]
NoSender == [smtp_host |-> "", smtp_port |-> 0, smtp_user |-> "", smtp_password |-> ""]
NotDeployed == [env |-> NoEnv, state |-> "new", email_sender |-> NoSender, calls |-> <<>>]

\* Nothing has run yet on the lifecycle sweep, the pool, the mail service and
\* the ratings.
Quiet ==
    /\ finishes = <<>>
    /\ wtask = [w \in Workers |-> NoMsg]
    /\ mailsvc = NotDeployed
    /\ ratings = {}
    /\ ratings_count = [e \in EventIds |-> 0]
    /\ rates = <<>>

\* ------------------------------------------------------------ the store

\* Booking.objects.filter(event=event, cancelled_at__isnull=True) over `rows`
ActiveIn(rows, e) == {b \in rows : b.event = e /\ b.cancelled_at = Null}

ActiveBookings(e) == ActiveIn(bookings, e)

\* .count() of the above
ActiveBookingsCount(e) == Cardinality(ActiveBookings(e))

\* Rows of one (user, event) pair
RowsOf(u, e) == {b \in bookings : b.user = u /\ b.event = e}

\* Booking.is_active
is_active(b) == b.cancelled_at = Null

\* cancelled_at passed as a filter instead of in defaults.
GetOrCreateLookup_ActiveOnly(u, e) == {b \in RowsOf(u, e) : is_active(b)}

\* The lookup of get_or_create(user=user, event=event, ...): by the pair alone,
\* whatever cancelled_at is (it is passed in defaults, not as a filter).
GetOrCreateLookup(u, e) == RowsOf(u, e)

\* The cancelled_at__isnull=True filter left out.
CancelLookup_AnyRow(u, e) == RowsOf(u, e)

\* The lookup of Booking.objects.get(user, event_id, cancelled_at__isnull=True)
CancelLookup(u, e) == {b \in RowsOf(u, e) : is_active(b)}

\* cancel() that saves without stamping cancelled_at.
cancel_NoStamp(b, t) == b

\* Booking.cancel: the instance after `self.cancelled_at = timezone.now()`,
\* untouched when it already carries a cancelled_at.
cancel(b, t) == IF b.cancelled_at = Null THEN [b EXCEPT !.cancelled_at = t] ELSE b

\* A row another transaction has written and not yet committed is write-locked.
RowLockedByOther(c, id) ==
    \E d \in Calls \ {c} : pend[d].kind = "update" /\ pend[d].id = id

\* The rows after the write of transaction c is applied.
Committed(c) ==
    CASE pend[c].kind = "insert" ->
            bookings \cup {[id |-> pend[c].id, user |-> op[c].user,
                            event |-> op[c].event,
                            cancelled_at |-> pend[c].cancelled_at]}
      [] pend[c].kind = "update" ->
            {IF b.id = pend[c].id
                THEN [b EXCEPT !.cancelled_at = pend[c].cancelled_at]
                ELSE b : b \in bookings}
      [] OTHER -> bookings

\* A plain .get(): the row is read without FOR UPDATE.
CanLockEvent_NoLock(e) == TRUE

\* Event.objects.select_for_update().get(id=event_id) can take the row lock
CanLockEvent(e) == lockE[e] = NoCall

\* Off by one: > for >=.
NoSeatsLeft_OffByOne(count, seats) == count > seats

\* if active_bookings_count >= event.seats: raise NoSeats
NoSeatsLeft(count, seats) == count >= seats

\* < for <=: an event starting right now is still bookable.
NotBookable_Strict(ev, t) == ev.status # EXPECTED \/ ev.start_at < t

\* if event.status != EXPECTED or event.start_at <= timezone.now(): raise EventFinished
NotBookable(ev, t) == ev.status # EXPECTED \/ ev.start_at <= t

\* if created or (not booking.cancelled_at): send_booking_notification.delay(...)
ShouldNotify(created, cancelled_at) == created \/ cancelled_at = Null

\* ------------------------------------------------------------ call frame

Init ==
    /\ now = 1
    /\ events = [e \in EventIds |->
                    [status |-> EXPECTED, start_at |-> 2,
                     seats |-> IF e = 1 THEN MaxSeats ELSE 1]]
    /\ bookings = {}
    /\ nextId = 1
    /\ lockE = [e \in EventIds |-> NoCall]
    /\ pc = [c \in Calls |-> "new"]
    /\ op = [c \in Calls |-> NoOp]
    /\ loc = [c \in Calls |-> NoLoc]
    /\ pend = [c \in Calls |-> NoPend]
    /\ sent = [c \in Calls |-> 0]
    /\ res = [c \in Calls |-> NoRes]
    /\ prior = [c \in Calls |-> {}]
    /\ queue = <<>>
    /\ nupdates = 0
    /\ users = Users
    /\ logs = {}
    /\ nextLog = 1
    /\ mails = <<>>
    /\ sched = {}
    /\ taken = 0
    /\ task = NoTask
    /\ ntasks = 0
    /\ outcomes = <<>>
    /\ sweeps = <<>>
    /\ nticks = 0
    /\ ndeletes = 0
    /\ nfanouts = 0
    /\ Quiet

\* The requests that have ended.
Ended == {d \in Calls : pc[d] = "done"}

\* Request c is the next to arrive.
Arrives(c) == pc[c] = "new" /\ (IF c = 1 THEN TRUE ELSE pc[c - 1] # "new")

Start(c, name, u, e) ==
    /\ op' = [op EXCEPT ![c] = [name |-> name, user |-> u, event |-> e]]
    /\ prior' = [prior EXCEPT ![c] = Ended]

\* The call ends: its transaction is over (`rows` are the committed rows it
\* leaves), its result goes back to the caller.
Finish(c, e, result, rows) ==
    /\ res' = [res EXCEPT ![c] =
                  [result |-> result, count |-> Cardinality(ActiveIn(rows, e))]]
    /\ pc' = [pc EXCEPT ![c] = "done"]
    /\ pend' = [pend EXCEPT ![c] = NoPend]
    /\ lockE' = [x \in DOMAIN lockE |-> IF lockE[x] = c THEN NoCall ELSE lockE[x]]

\* task.delay(...): the intent is on the broker at once, whatever the
\* caller's transaction does afterwards.
Publish(c, type, u, e) ==
    /\ queue' = Append(queue, [type |-> type, user |-> u, event |-> e, by |-> c])
    /\ sent' = [sent EXCEPT ![c] = @ + 1]

\* ------------------------------------------------------- create_booking

\* events/views.py 487-491: a request calls create_booking(request.user, pk).
CreateCall(c, u, e) ==
    /\ Arrives(c)
    /\ Start(c, "create", u, e)
    /\ pc' = [pc EXCEPT ![c] = "c_lock"]
    /\ UNCHANGED <<now, events, bookings, nextId, lockE, loc, pend, sent, res, queue,
                   nupdates>>
    /\ UNCHANGED nvars
    /\ UNCHANGED xvars

\* booking.py 52-61: lock the event row (waiting while another transaction
\* holds it), check status and start time.
CreateLock(c) ==
    /\ pc[c] = "c_lock"
    /\ LET e == op[c].event IN
       IF e \notin DOMAIN events
          THEN /\ Finish(c, e, "EventNotFound", bookings)
          ELSE /\ CanLockEvent(e)
               /\ IF NotBookable(events[e], now)
                     THEN Finish(c, e, "EventFinished", bookings)
                     ELSE /\ lockE' = [lockE EXCEPT ![e] = c]
                          /\ pc' = [pc EXCEPT ![c] = "c_count"]
                          /\ UNCHANGED <<pend, res>>
    /\ UNCHANGED <<now, events, bookings, nextId, op, loc, sent, prior, queue, nupdates>>
    /\ UNCHANGED nvars
    /\ UNCHANGED xvars

\* booking.py 63-68: count the active bookings, raise NoSeats when full.
CreateCount(c) ==
    /\ pc[c] = "c_count"
    /\ IF NoSeatsLeft(ActiveBookingsCount(op[c].event), events[op[c].event].seats)
          THEN Finish(c, op[c].event, "NoSeats", bookings)
          ELSE /\ pc' = [pc EXCEPT ![c] = "c_get"]
               /\ UNCHANGED <<pend, res, lockE>>
    /\ loc' = [loc EXCEPT ![c].active_bookings_count = ActiveBookingsCount(op[c].event)]
    /\ UNCHANGED <<now, events, bookings, nextId, op, sent, prior, queue, nupdates>>
    /\ UNCHANGED nvars
    /\ UNCHANGED xvars

\* booking.py 70-72: get_or_create(user, event, defaults={cancelled_at: None}).
CreateGetOrCreate(c) ==
    /\ pc[c] = "c_get"
    /\ LET rows == GetOrCreateLookup(op[c].user, op[c].event) IN
       IF rows = {}
          THEN /\ pend' = [pend EXCEPT ![c] =
                     [kind |-> "insert", id |-> nextId, cancelled_at |-> Null]]
               /\ nextId' = nextId + 1
               /\ loc' = [loc EXCEPT ![c].booking = nextId, ![c].created = TRUE,
                                      ![c].cancelled_at = Null]
               /\ pc' = [pc EXCEPT ![c] = "c_notify"]
          ELSE \E b \in rows :
               /\ loc' = [loc EXCEPT ![c].booking = b.id, ![c].created = FALSE,
                                      ![c].cancelled_at = b.cancelled_at]
               /\ pc' = [pc EXCEPT ![c] =
                     IF b.cancelled_at # Null THEN "c_save" ELSE "c_notify"]
               /\ UNCHANGED <<pend, nextId>>
    /\ UNCHANGED <<now, events, bookings, lockE, op, sent, res, prior, queue, nupdates>>
    /\ UNCHANGED nvars
    /\ UNCHANGED xvars

\* booking.py 74-76: reactivate the cancelled row (UPDATE of cancelled_at).
CreateSave(c) ==
    /\ pc[c] = "c_save"
    /\ ~RowLockedByOther(c, loc[c].booking)
    /\ loc' = [loc EXCEPT ![c].cancelled_at = Null]
    /\ pend' = [pend EXCEPT ![c] =
          [kind |-> "update", id |-> loc[c].booking, cancelled_at |-> Null]]
    /\ pc' = [pc EXCEPT ![c] = "c_notify"]
    /\ UNCHANGED <<now, events, bookings, nextId, lockE, op, sent, res, prior, queue, nupdates>>
    /\ UNCHANGED nvars
    /\ UNCHANGED xvars

\* booking.py 78-79: publish the booking intent, inside the transaction.
CreateNotify(c) ==
    /\ pc[c] = "c_notify"
    /\ IF ShouldNotify(loc[c].created, loc[c].cancelled_at)
          THEN Publish(c, "booking", op[c].user, op[c].event)
          ELSE UNCHANGED <<queue, sent>>
    /\ pc' = [pc EXCEPT ![c] = "c_commit"]
    /\ UNCHANGED <<now, events, bookings, nextId, lockE, op, loc, pend, res, prior, nupdates>>
    /\ UNCHANGED nvars
    /\ UNCHANGED xvars

\* booking.py 81 and the exit of @transaction.atomic: commit, return booking.
CreateCommit(c) ==
    /\ pc[c] = "c_commit"
    /\ bookings' = Committed(c)
    /\ Finish(c, op[c].event, "ok", Committed(c))
    /\ UNCHANGED <<now, events, nextId, op, loc, sent, prior, queue, nupdates>>
    /\ UNCHANGED nvars
    /\ UNCHANGED xvars

\* ------------------------------------------------------- cancel_booking

\* booking.py 99-104: Booking.objects.get(user, event_id, cancelled_at IS NULL).
CancelGet(c, u, e) ==
    /\ Arrives(c)
    /\ Start(c, "cancel", u, e)
    /\ LET rows == CancelLookup(u, e) IN
       IF rows = {}
          THEN /\ Finish(c, e, "BookingNotFound", bookings)
               /\ UNCHANGED loc
          ELSE \E b \in rows :
               /\ loc' = [loc EXCEPT ![c].booking = b.id, ![c].created = FALSE,
                                      ![c].cancelled_at = b.cancelled_at]
               /\ pc' = [pc EXCEPT ![c] = "x_save"]
               /\ UNCHANGED <<pend, res, lockE>>
    /\ UNCHANGED <<now, events, bookings, nextId, sent, queue, nupdates>>
    /\ UNCHANGED nvars
    /\ UNCHANGED xvars

\* models.py 47-53: Booking.cancel(): set cancelled_at on the instance, save().
CancelSave(c) ==
    /\ pc[c] = "x_save"
    /\ IF loc[c].cancelled_at = Null
          THEN /\ ~RowLockedByOther(c, loc[c].booking)
               /\ loc' = [loc EXCEPT ![c] = cancel(@, now)]
               /\ pend' = [pend EXCEPT ![c] =
                     [kind |-> "update", id |-> loc[c].booking,
                      cancelled_at |-> cancel(loc[c], now).cancelled_at]]
          ELSE UNCHANGED <<loc, pend>>
    /\ pc' = [pc EXCEPT ![c] = "x_notify"]
    /\ UNCHANGED <<now, events, bookings, nextId, lockE, op, sent, res, prior, queue, nupdates>>
    /\ UNCHANGED nvars
    /\ UNCHANGED xvars

\* booking.py 108: publish the cancellation intent, inside the transaction.
CancelNotify(c) ==
    /\ pc[c] = "x_notify"
    /\ Publish(c, "cancellation", op[c].user, op[c].event)
    /\ pc' = [pc EXCEPT ![c] = "x_commit"]
    /\ UNCHANGED <<now, events, bookings, nextId, lockE, op, loc, pend, res, prior, nupdates>>
    /\ UNCHANGED nvars
    /\ UNCHANGED xvars

\* booking.py 110 and the exit of @transaction.atomic: commit, return booking.
CancelCommit(c) ==
    /\ pc[c] = "x_commit"
    /\ bookings' = Committed(c)
    /\ Finish(c, op[c].event, "ok", Committed(c))
    /\ UNCHANGED <<now, events, nextId, op, loc, sent, prior, queue, nupdates>>
    /\ UNCHANGED nvars
    /\ UNCHANGED xvars

\* ------------------------------------------------- the broker is down

\* booking.py 79: .delay() raises (the broker refuses the publish); the
\* exception leaves create_booking through @transaction.atomic, which rolls
\* the transaction back; events/views.py 490-508 catches none of it.
CreateNotifyFails(c) ==
    /\ pc[c] = "c_notify"
    /\ ShouldNotify(loc[c].created, loc[c].cancelled_at)
    /\ Finish(c, op[c].event, "BrokerError", bookings)
    /\ UNCHANGED <<now, events, bookings, nextId, op, loc, sent, prior, queue, nupdates>>
    /\ UNCHANGED nvars
    /\ UNCHANGED xvars

\* booking.py 108: the same for cancel_booking.
CancelNotifyFails(c) ==
    /\ pc[c] = "x_notify"
    /\ Finish(c, op[c].event, "BrokerError", bookings)
    /\ UNCHANGED <<now, events, bookings, nextId, op, loc, sent, prior, queue, nupdates>>
    /\ UNCHANGED nvars
    /\ UNCHANGED xvars

\* ---------------------------------------------------------- environment

\* serializers.py 104-127 and models.py 150-163: the organizer saves the event
\* with another status (any of the choices); the UPDATE waits for a FOR UPDATE
\* lock on the row; the pre_save hook publishes cancel_scheduled_notifications
\* when the status leaves EXPECTED.
UpdateEventStatus(e, s) ==
    /\ nupdates < MaxUpdates
    /\ e \in DOMAIN events
    /\ s # events[e].status
    /\ lockE[e] = NoCall
    /\ events' = [events EXCEPT ![e].status = s]
    /\ queue' = IF events[e].status = EXPECTED /\ s # EXPECTED
                   THEN Append(queue, [type |-> "cancel_scheduled", user |-> 0,
                                       event |-> e, by |-> NoCall])
                   ELSE queue
    /\ nupdates' = nupdates + 1
    /\ UNCHANGED <<now, bookings, nextId, lockE, pc, op, loc, pend, sent, res, prior>>
    /\ UNCHANGED nvars
    /\ UNCHANGED xvars

\* The clock.
Tick ==
    /\ now < MaxTime
    /\ now' = now + 1
    /\ UNCHANGED <<events, bookings, nextId, lockE, pc, op, loc, pend, sent, res, prior,
                   queue, nupdates>>
    /\ UNCHANGED nvars
    /\ UNCHANGED xvars

Next ==
    \/ \E c \in Calls, u \in Users, e \in EventIds : CreateCall(c, u, e)
    \/ \E c \in Calls : CreateLock(c)
    \/ \E c \in Calls : CreateCount(c)
    \/ \E c \in Calls : CreateGetOrCreate(c)
    \/ \E c \in Calls : CreateSave(c)
    \/ \E c \in Calls : CreateNotify(c)
    \/ \E c \in Calls : CreateCommit(c)
    \/ \E c \in Calls, u \in Users, e \in EventIds : CancelGet(c, u, e)
    \/ \E c \in Calls : CancelSave(c)
    \/ \E c \in Calls : CancelNotify(c)
    \/ \E c \in Calls : CancelCommit(c)
    \/ \E e \in EventIds, s \in Status : UpdateEventStatus(e, s)
    \/ Tick

\* The broker accepts every publish.
Spec == Init /\ [][Next]_vars

NextFault ==
    \/ Next
    \/ \E c \in Calls : CreateNotifyFails(c)
    \/ \E c \in Calls : CancelNotifyFails(c)

\* The broker may refuse any publish.
SpecFault == Init /\ [][NextFault]_vars

\* ------------------------------------------------ the notification side

MaxNotifyCalls == 1
MaxTicks == 2
MaxSweeps == 2
MaxAdminLogs == 1
MaxDeletes == 1
MaxFanouts == 1
MaxFinishes == 2

\* timedelta(hours=1) and timedelta(hours=24), in steps of the clock
Hour == 1
Day == 24 * Hour
\* settings.py 131: finish_events runs every timedelta(hours=3)
FinishPeriod == 3 * Hour

BOOKING == "booking"
CANCELLATION == "cancellation"
REMINDER == "reminder"
EVENT_CANCELLED == "event_cancelled"
NotificationType == {BOOKING, CANCELLATION, REMINDER, EVENT_CANCELLED}

\* What email_client.send_email meets: the service answers success, answers
\* failure, or the call raises (RpcError or anything else).
Transport == {"ok", "false", "error"}

\* EmailClient.send_email: True on response.success, False on a negative
\* response and on every exception.
send_email(tr) == tr = "ok"

\* The fields of NotificationLog, and the keywords Model.__init__ accepts:
\* the fields and the attnames of the two foreign keys.
LogFields == {"id", "user", "event", "type", "message", "created_at", "is_sent", "sent_at"}
AcceptedKwargs == LogFields \cup {"user_id", "event_id"}

\* The keywords _send_notification passes to NotificationLog.objects.create.
CreateKwargs == {"user_id", "event_id", "type", "message", "is_sent", "sent_at",
                 "error_message"}

\* Model.__init__ raises TypeError on a keyword that is no field.
CreateRaises(kwargs) == kwargs \ AcceptedKwargs # {}

\* The messages of the except clauses (tasks.py 39, 43).
PlaceholderEvent == "event placeholder"
PlaceholderUser == "user placeholder"

\* _send_notification up to the create: the lookups (user first), the
\* rendering, the transport call, the except clauses.
\*   called: send_email was called;  success, error_message, message: the locals.
Attempt(u, e, tr) ==
    LET userOk == u \in users
        eventOk == e \in DOMAIN events
    IN  IF ~userOk
           THEN [called |-> FALSE, success |-> FALSE,
                 error_message |-> "User not found", message |-> PlaceholderUser]
        ELSE IF ~eventOk
           THEN [called |-> FALSE, success |-> FALSE,
                 error_message |-> "Event not found", message |-> PlaceholderEvent]
        ELSE [called |-> TRUE, success |-> send_email(tr),
              error_message |-> "None", message |-> "rendered"]

\* The row NotificationLog.objects.create would insert for an attempt.
LogRow(id, u, e, type, att, t, by) ==
    [id |-> id, user |-> u, event |-> e, type |-> type, message |-> att.message,
     is_sent |-> att.success, sent_at |-> IF att.success THEN t ELSE Null,
     created_at |-> t, by |-> by]

\* What the create ends with: TypeError before any SQL, IntegrityError when
\* the row would reference a missing user or event, else the row is inserted.
CreateResult(u, e) ==
    IF CreateRaises(CreateKwargs) THEN "TypeError"
    ELSE IF u \notin users \/ e \notin DOMAIN events THEN "IntegrityError"
    ELSE "created"

\* The task ends: the worker records the outcome and is idle again.
EndTask(result, attempts, report) ==
    /\ outcomes' = Append(outcomes,
          [id |-> task.id, name |-> task.name, user |-> task.user,
           event |-> task.event, result |-> result, attempts |-> attempts,
           k |-> task.k, report |-> report])
    /\ task' = NoTask

NewTask(name, u, e, pcv) ==
    [name |-> name, id |-> ntasks + 1, user |-> u, event |-> e, pc |-> pcv,
     seen |-> "none", todo |-> {}, results |-> <<>>, attempts |-> 0, k |-> 0]

NoReport == <<0, 0>>

TaskOf(type) ==
    CASE type = BOOKING -> "send_booking_notification"
      [] type = CANCELLATION -> "send_cancel_notification"
      [] OTHER -> "cancel_scheduled_notifications"

TypeOf(name) ==
    CASE name = "send_booking_notification" -> BOOKING
      [] name = "send_cancel_notification" -> CANCELLATION
      [] name = "send_reminder" -> REMINDER
      [] OTHER -> EVENT_CANCELLED

\* The worker takes the next message of the "fast" queue.
TakeQueued ==
    /\ task = NoTask
    /\ taken < Len(queue)
    /\ LET m == queue[taken + 1] IN
       task' = NewTask(TaskOf(m.type), m.user, m.event,
                       IF m.type \in {BOOKING, CANCELLATION} THEN "dispatch" ELSE "return")
    /\ taken' = taken + 1
    /\ ntasks' = ntasks + 1
    /\ UNCHANGED <<now, events, bookings, nextId, lockE, pc, op, loc, pend, sent, res, prior,
                   queue, nupdates, users, logs, nextLog, mails, sched, outcomes, sweeps,
                   nticks, ndeletes, nfanouts>>
    /\ UNCHANGED xvars

\* tasks.py 182-188: cancel_scheduled_notifications only returns a string.
CancelScheduledReturn ==
    /\ task # NoTask
    /\ task.pc = "return"
    /\ EndTask("returned", 0, NoReport)
    /\ UNCHANGED <<now, events, bookings, nextId, lockE, pc, op, loc, pend, sent, res, prior,
                   queue, nupdates, users, logs, nextLog, mails, sched, taken, ntasks,
                   sweeps, nticks, ndeletes, nfanouts>>
    /\ UNCHANGED xvars

\* The broker hands a send_reminder(u, e) message to the worker once its eta
\* is reached.
TakeReminder(u, e) ==
    /\ task = NoTask
    /\ \E r \in sched :
          /\ r.user = u /\ r.event = e
          /\ r.eta <= now
          /\ sched' = sched \ {r}
    /\ task' = NewTask("send_reminder", u, e, "check")
    /\ ntasks' = ntasks + 1
    /\ UNCHANGED <<now, events, bookings, nextId, lockE, pc, op, loc, pend, sent, res, prior,
                   queue, nupdates, users, logs, nextLog, mails, taken, outcomes, sweeps,
                   nticks, ndeletes, nfanouts>>
    /\ UNCHANGED xvars

\* The re-check that lets a reminder through.
ReminderSkips_Never(e) == FALSE

\* tasks.py 99-101, 114-115: no event row, or its status is not EXPECTED.
ReminderSkips(e) == e \notin DOMAIN events \/ events[e].status # EXPECTED

\* tasks.py 97-101, 114-115: send_reminder reads the event and re-checks it.
ReminderCheck ==
    /\ task # NoTask
    /\ task.pc = "check"
    /\ IF ReminderSkips(task.event)
          THEN EndTask("skipped", 0, NoReport)
          ELSE /\ task' = [task EXCEPT !.pc = "dispatch",
                                       !.seen = IF task.event \in DOMAIN events
                                                   THEN events[task.event].status
                                                   ELSE "missing"]
               /\ UNCHANGED outcomes
    /\ UNCHANGED <<now, events, bookings, nextId, lockE, pc, op, loc, pend, sent, res, prior,
                   queue, nupdates, users, logs, nextLog, mails, sched, taken, ntasks,
                   sweeps, nticks, ndeletes, nfanouts>>
    /\ UNCHANGED xvars

\* send_event_cancelled_notification.delay(e): no code of the repository sends
\* it; the message reaches the worker only when sent by hand.
RunEventCancelled(e) ==
    /\ task = NoTask
    /\ nfanouts < MaxFanouts
    /\ nfanouts' = nfanouts + 1
    /\ task' = NewTask("send_event_cancelled_notification", 0, e, "start")
    /\ ntasks' = ntasks + 1
    /\ UNCHANGED <<now, events, bookings, nextId, lockE, pc, op, loc, pend, sent, res, prior,
                   queue, nupdates, users, logs, nextLog, mails, sched, taken, outcomes,
                   sweeps, nticks, ndeletes>>
    /\ UNCHANGED xvars

\* tasks.py 121-128, 148-149: read the event and its active bookings.
FanoutStart ==
    /\ task # NoTask
    /\ task.pc = "start"
    /\ IF task.event \notin DOMAIN events
          THEN EndTask("not found", 0, NoReport)
          ELSE /\ task' = [task EXCEPT
                     !.pc = "loop",
                     !.todo = {b.user : b \in ActiveBookings(task.event)},
                     !.k = ActiveBookingsCount(task.event)]
               /\ UNCHANGED outcomes
    /\ UNCHANGED <<now, events, bookings, nextId, lockE, pc, op, loc, pend, sent, res, prior,
                   queue, nupdates, users, logs, nextLog, mails, sched, taken, ntasks,
                   sweeps, nticks, ndeletes, nfanouts>>
    /\ UNCHANGED xvars

\* One call of _send_notification (tasks.py 16-59) for recipient u, by the
\* task the worker runs: the attempt, then the create.  An exception of the
\* create leaves _send_notification and the task (no caller catches it).
DispatchTo(u, tr) ==
    LET e == task.event
        type == TypeOf(task.name)
        att == Attempt(u, e, tr)
        cr == CreateResult(u, e)
    IN  /\ mails' = IF att.called
                       THEN Append(mails, [task |-> task.id, user |-> u, event |-> e,
                                           type |-> type, ok |-> att.success,
                                           seen |-> task.seen,
                                           status |-> events[e].status])
                       ELSE mails
        /\ IF cr = "created"
              THEN /\ logs' = logs \cup {LogRow(nextLog, u, e, type, att, now, task.id)}
                   /\ nextLog' = nextLog + 1
                   /\ IF task.pc = "loop"
                         THEN /\ task' = [task EXCEPT
                                    !.todo = @ \ {u},
                                    !.results = Append(@, att.success),
                                    !.attempts = @ + 1]
                              /\ UNCHANGED outcomes
                         ELSE EndTask("returned", 1, NoReport)
              ELSE /\ UNCHANGED <<logs, nextLog>>
                   /\ EndTask(cr, task.attempts + 1, NoReport)

\* send_booking_notification, send_cancel_notification, and send_reminder
\* after its re-check: one dispatch to the user of the message.
Dispatch(tr) ==
    /\ task # NoTask
    /\ task.pc = "dispatch"
    /\ DispatchTo(task.user, tr)
    /\ UNCHANGED <<now, events, bookings, nextId, lockE, pc, op, loc, pend, sent, res, prior,
                   queue, nupdates, users, sched, taken, ntasks, sweeps, nticks, ndeletes,
                   nfanouts>>
    /\ UNCHANGED xvars

\* tasks.py 128-139: the loop of send_event_cancelled_notification, one
\* recipient per step, in the order the database returns them.
FanoutDispatch(u, tr) ==
    /\ task # NoTask
    /\ task.pc = "loop"
    /\ u \in task.todo
    /\ DispatchTo(u, tr)
    /\ UNCHANGED <<now, events, bookings, nextId, lockE, pc, op, loc, pend, sent, res, prior,
                   queue, nupdates, users, sched, taken, ntasks, sweeps, nticks, ndeletes,
                   nfanouts>>
    /\ UNCHANGED xvars

\* sum(results)
SumTrue(results) == Cardinality({i \in 1..Len(results) : results[i]})

\* tasks.py 141-146: the report of send_event_cancelled_notification.
FanoutReport ==
    /\ task # NoTask
    /\ task.pc = "loop"
    /\ task.todo = {}
    /\ EndTask("returned", task.attempts,
               <<SumTrue(task.results), Len(task.results) - SumTrue(task.results)>>)
    /\ UNCHANGED <<now, events, bookings, nextId, lockE, pc, op, loc, pend, sent, res, prior,
                   queue, nupdates, users, logs, nextLog, mails, sched, taken, ntasks,
                   sweeps, nticks, ndeletes, nfanouts>>
    /\ UNCHANGED xvars

\* ------------------------------------------------------------ the sweeps

\* The status filter left out.
InWindow_AnyStatus(ev, t) == ev.start_at >= t + Hour /\ ev.start_at <= t + 2 * Hour

\* tasks.py 157-160: status=EXPECTED, start_at__range=(now + 1h, now + 2h),
\* both ends included.
InWindow(ev, t) ==
    ev.status = EXPECTED /\ ev.start_at >= t + Hour /\ ev.start_at <= t + 2 * Hour

\* tasks.py 165-169: a REMINDER row of the event created in the last 24 hours.
ExistingReminder(e, t) ==
    \E r \in logs : r.event = e /\ r.type = REMINDER /\ r.created_at >= t - Day

\* tasks.py 174: eta = event.start_at - timedelta(hours=1)
Eta(ev) == ev.start_at - Hour

\* >= for >: a reminder whose time is now is sent at once.
EtaInFuture_OrNow(eta, t) == eta >= t

\* tasks.py 175: if eta > now
EtaInFuture(eta, t) == eta > t

\* The cancelled_at__isnull=True filter left out.
SweepBookings_All(e) == {b \in bookings : b.event = e}

\* tasks.py 172: event.bookings.filter(cancelled_at__isnull=True)
SweepBookings(e) == ActiveBookings(e)

\* tasks.py 163-177: the bookings a run at time t appends to `scheduled`.
Scheduled(t) ==
    {b \in bookings :
        /\ b.event \in DOMAIN events
        /\ InWindow(events[b.event], t)
        /\ ~ExistingReminder(b.event, t)
        /\ b \in SweepBookings(b.event)
        /\ EtaInFuture(Eta(events[b.event]), t)}

\* tasks.py 152-179: one run of schedule_reminders.  Each apply_async leaves a
\* message with its eta on the broker; the run returns len(scheduled) and
\* events.count().
ScheduleReminders ==
    /\ Len(sweeps) < MaxSweeps
    /\ LET t == now
           run == Len(sweeps) + 1
           msgs == {[user |-> b.user, event |-> b.event, booking |-> b.id,
                     eta |-> Eta(events[b.event]), run |-> run] : b \in Scheduled(t)}
       IN /\ sched' = sched \cup msgs
          /\ sweeps' = Append(sweeps,
                [now |-> t, msgs |-> msgs, count |-> Cardinality(Scheduled(t)),
                 events |-> Cardinality({e \in DOMAIN events : InWindow(events[e], t)}),
                 selected |-> {b.id : b \in Scheduled(t)}, failed |-> 0,
                 returned |-> TRUE])
    /\ UNCHANGED <<now, events, bookings, nextId, lockE, pc, op, loc, pend, sent, res, prior,
                   queue, nupdates, users, logs, nextLog, mails, taken, task, ntasks,
                   outcomes, nticks, ndeletes, nfanouts>>
    /\ UNCHANGED xvars

\* tasks.py 163, 172: the loop takes the events by start_at (Meta.ordering of
\* Event, after the status they share) and the bookings of one event in the
\* order the database returns them.  `done` can be what the loop has
\* processed when it reaches booking b.
ProcessedBefore(done, b, t) ==
    /\ done \subseteq Scheduled(t) \ {b}
    /\ \A x \in Scheduled(t) \ {b} :
          /\ events[x.event].start_at < events[b.event].start_at => x \in done
          /\ events[x.event].start_at > events[b.event].start_at => x \notin done

\* tasks.py 176: send_reminder.apply_async raises for the booking of user u on
\* event e (the broker refuses the publish).  Nothing in schedule_reminders
\* catches it: the run ends there, with the messages of the bookings before
\* it published, the rest not looked at, and no count returned.
ScheduleRemindersFails(u, e) ==
    /\ Len(sweeps) < MaxSweeps
    /\ \E b \in Scheduled(now) :
          /\ b.user = u /\ b.event = e
          /\ \E done \in SUBSET Scheduled(now) :
                /\ ProcessedBefore(done, b, now)
                /\ LET msgs == {[user |-> x.user, event |-> x.event, booking |-> x.id,
                                  eta |-> Eta(events[x.event]),
                                  run |-> Len(sweeps) + 1] : x \in done}
                   IN /\ sched' = sched \cup msgs
                      /\ sweeps' = Append(sweeps,
                            [now |-> now, msgs |-> msgs, count |-> Cardinality(done),
                             events |-> Cardinality({x \in DOMAIN events :
                                                       InWindow(events[x], now)}),
                             selected |-> {x.id : x \in Scheduled(now)},
                             failed |-> b.id, returned |-> FALSE])
    /\ UNCHANGED <<now, events, bookings, nextId, lockE, pc, op, loc, pend, sent, res, prior,
                   queue, nupdates, users, logs, nextLog, mails, taken, task, ntasks,
                   outcomes, nticks, ndeletes, nfanouts>>
    /\ UNCHANGED xvars

\* <= for <: an event that began exactly two hours ago is finished too.
ToFinish_Inclusive(t) ==
    {e \in DOMAIN events :
        events[e].status = EXPECTED /\ events[e].start_at <= t - 2 * Hour}

\* tasks.py 194-196: the events finish_events updates.
ToFinish(t) ==
    {e \in DOMAIN events :
        events[e].status = EXPECTED /\ events[e].start_at < t - 2 * Hour}

\* tasks.py 191-198: finish_events, one UPDATE statement (it waits for the row
\* locks; QuerySet.update sends no pre_save signal, so nothing is published);
\* the run returns the number of rows it updated.
FinishEvents ==
    /\ Len(finishes) < MaxFinishes
    /\ \A e \in ToFinish(now) : lockE[e] = NoCall
    /\ events' = [e \in DOMAIN events |->
                     IF e \in ToFinish(now)
                        THEN [events[e] EXCEPT !.status = FINISHED]
                        ELSE events[e]]
    /\ finishes' = Append(finishes, [now |-> now, updated |-> Cardinality(ToFinish(now))])
    /\ UNCHANGED <<now, bookings, nextId, lockE, pc, op, loc, pend, sent, res, prior,
                   queue, nupdates>>
    /\ UNCHANGED nvars
    /\ UNCHANGED <<wtask, mailsvc, ratings, ratings_count, rates>>

\* ----------------------------------------------- the rest of the system

\* Time passes: an hour, the period of finish_events, or a day.
Pass(d) ==
    /\ nticks < MaxTicks
    /\ nticks' = nticks + 1
    /\ now' = now + d
    /\ UNCHANGED <<events, bookings, nextId, lockE, pc, op, loc, pend, sent, res, prior,
                   queue, nupdates, users, logs, nextLog, mails, sched, taken, task,
                   ntasks, outcomes, sweeps, ndeletes, nfanouts>>
    /\ UNCHANGED xvars

\* A request is running for user u / on event e.
InFlight(c) == pc[c] \notin {"new", "done"}

\* notifications/admin.py 6-12: a row added through the admin site, with the
\* defaults of the model (is_sent False, sent_at empty, created_at now).
AdminAddLog(u, e, type) ==
    /\ Cardinality({r \in logs : r.by = 0}) < MaxAdminLogs
    /\ nextLog <= MaxAdminLogs
    /\ u \in users
    /\ e \in DOMAIN events
    /\ logs' = logs \cup {[id |-> nextLog, user |-> u, event |-> e, type |-> type,
                           message |-> "", is_sent |-> FALSE, sent_at |-> Null,
                           created_at |-> now, by |-> 0]}
    /\ nextLog' = nextLog + 1
    /\ UNCHANGED <<now, events, bookings, nextId, lockE, pc, op, loc, pend, sent, res, prior,
                   queue, nupdates, users, mails, sched, taken, task, ntasks, outcomes,
                   sweeps, nticks, ndeletes, nfanouts>>
    /\ UNCHANGED xvars

\* users/views.py 210-211: DELETE /users/me/ deletes the user; on_delete=CASCADE
\* takes the user's Booking and NotificationLog rows along.
DeleteUser(u) ==
    /\ ndeletes < MaxDeletes
    /\ u \in users
    /\ \A c \in Calls : InFlight(c) => op[c].user # u
    /\ users' = users \ {u}
    /\ bookings' = {b \in bookings : b.user # u}
    /\ logs' = {r \in logs : r.user # u}
    /\ ndeletes' = ndeletes + 1
    /\ UNCHANGED <<now, events, nextId, lockE, pc, op, loc, pend, sent, res, prior,
                   queue, nupdates, nextLog, mails, sched, taken, task, ntasks, outcomes,
                   sweeps, nticks, nfanouts>>
    /\ UNCHANGED xvars

\* Event.can_be_deleted: within an hour of its creation.
can_be_deleted(ev, t) == t - ev.created_at <= Hour

\* events/views.py 478-484: the organizer deletes the event; on_delete=CASCADE
\* takes its Booking and NotificationLog rows along.
DeleteEvent(e) ==
    /\ ndeletes < MaxDeletes
    /\ e \in DOMAIN events
    /\ can_be_deleted(events[e], now)
    /\ lockE[e] = NoCall
    /\ \A c \in Calls : InFlight(c) => op[c].event # e
    /\ events' = [x \in DOMAIN events \ {e} |-> events[x]]
    /\ bookings' = {b \in bookings : b.event # e}
    /\ logs' = {r \in logs : r.event # e}
    /\ ndeletes' = ndeletes + 1
    /\ UNCHANGED <<now, nextId, lockE, pc, op, loc, pend, sent, res, prior,
                   queue, nupdates, users, nextLog, mails, sched, taken, task, ntasks,
                   outcomes, sweeps, nticks, nfanouts>>
    /\ UNCHANGED xvars

\* The store as earlier requests left it: users 1 and 2 hold seats of event 1,
\* user 3 has cancelled there and one seat is free; user 3 holds the seat of
\* event 2.  s1 and s2 are the start times of the two events, sc the
\* send_reminder messages an earlier run of schedule_reminders left.
Seeded(s1, s2, sc) ==
    /\ now = 1
    /\ events = [e \in EventIds |->
                    [status |-> EXPECTED, start_at |-> IF e = 1 THEN s1 ELSE s2,
                     seats |-> IF e = 1 THEN MaxSeats + 1 ELSE 1, created_at |-> 1]]
    /\ bookings = {[id |-> 1, user |-> 1, event |-> 1, cancelled_at |-> Null],
                   [id |-> 2, user |-> 2, event |-> 1, cancelled_at |-> Null],
                   [id |-> 3, user |-> 3, event |-> 1, cancelled_at |-> 1],
                   [id |-> 4, user |-> 3, event |-> 2, cancelled_at |-> Null]}
    /\ nextId = 5
    /\ lockE = [e \in EventIds |-> NoCall]
    /\ pc = [c \in Calls |-> "new"]
    /\ op = [c \in Calls |-> NoOp]
    /\ loc = [c \in Calls |-> NoLoc]
    /\ pend = [c \in Calls |-> NoPend]
    /\ sent = [c \in Calls |-> 0]
    /\ res = [c \in Calls |-> NoRes]
    /\ prior = [c \in Calls |-> {}]
    /\ queue = <<>>
    /\ nupdates = 0
    /\ users = Users
    /\ logs = {}
    /\ nextLog = 1
    /\ mails = <<>>
    /\ sched = sc
    /\ taken = 0
    /\ task = NoTask
    /\ ntasks = 0
    /\ outcomes = <<>>
    /\ sweeps = <<>>
    /\ nticks = 0
    /\ ndeletes = 0
    /\ nfanouts = 0
    /\ Quiet

\* ------------------------------------------- requests and the dispatcher

\* Event 1 starts in an hour; the reminder of user 1 for it is due.
InitDispatch ==
    Seeded(2, 3, {[user |-> 1, event |-> 1, booking |-> 1, eta |-> 1, run |-> 0]})

\* The requests of the dispatcher runs.
NotifyCalls == 1..MaxNotifyCalls

NextDispatch ==
    \/ \E c \in NotifyCalls, u \in Users, e \in EventIds : CreateCall(c, u, e)
    \/ \E c \in NotifyCalls : CreateLock(c)
    \/ \E c \in NotifyCalls : CreateCount(c)
    \/ \E c \in NotifyCalls : CreateGetOrCreate(c)
    \/ \E c \in NotifyCalls : CreateSave(c)
    \/ \E c \in NotifyCalls : CreateNotify(c)
    \/ \E c \in NotifyCalls : CreateCommit(c)
    \/ \E c \in NotifyCalls, u \in Users, e \in EventIds : CancelGet(c, u, e)
    \/ \E c \in NotifyCalls : CancelSave(c)
    \/ \E c \in NotifyCalls : CancelNotify(c)
    \/ \E c \in NotifyCalls : CancelCommit(c)
    \/ \E e \in EventIds : UpdateEventStatus(e, CANCELLED)
    \/ \E u \in Users : DeleteUser(u)
    \/ \E e \in EventIds : DeleteEvent(e)
    \/ TakeQueued
    \/ CancelScheduledReturn
    \/ \E u \in Users, e \in EventIds : TakeReminder(u, e)
    \/ ReminderCheck
    \/ \E e \in EventIds : RunEventCancelled(e)
    \/ FanoutStart
    \/ \E tr \in Transport : Dispatch(tr)
    \/ \E u \in Users, tr \in Transport : FanoutDispatch(u, tr)
    \/ FanoutReport

\* Requests, the worker of the "fast" queue and the mail transport.
SpecDispatch == InitDispatch /\ [][NextDispatch]_vars

\* ------------------------------------------- bookings and the reminders

\* Event 1 starts two hours from now, event 2 three hours from now.
InitRemind == Seeded(3, 4, {})

\* settings.py 134-138: schedule_reminders runs on the hour, every hour.
NextRemind ==
    \/ \E c \in NotifyCalls, u \in Users, e \in EventIds : CreateCall(c, u, e)
    \/ \E c \in NotifyCalls : CreateLock(c)
    \/ \E c \in NotifyCalls : CreateCount(c)
    \/ \E c \in NotifyCalls : CreateGetOrCreate(c)
    \/ \E c \in NotifyCalls : CreateSave(c)
    \/ \E c \in NotifyCalls : CreateNotify(c)
    \/ \E c \in NotifyCalls : CreateCommit(c)
    \/ \E c \in NotifyCalls, u \in Users, e \in EventIds : CancelGet(c, u, e)
    \/ \E c \in NotifyCalls : CancelSave(c)
    \/ \E c \in NotifyCalls : CancelNotify(c)
    \/ \E c \in NotifyCalls : CancelCommit(c)
    \/ \E u \in Users, e \in EventIds : AdminAddLog(u, e, REMINDER)
    \/ Pass(Hour)
    \/ ScheduleReminders

\* Booking requests between the hourly runs of schedule_reminders.
SpecRemind == InitRemind /\ [][NextRemind]_vars

\* ------------------------------------------- a transport that is silent

\* grpc_client.py 46: stub.SendEmail(request, metadata=metadata) is called
\* without timeout=, and no task has a time limit: when the service accepts
\* the call and never answers, send_email does not return and the task stays
\* in it.
DispatchHangs ==
    /\ task # NoTask
    /\ task.pc = "dispatch"
    /\ Attempt(task.user, task.event, "ok").called
    /\ mails' = Append(mails, [task |-> task.id, user |-> task.user,
                                event |-> task.event, type |-> TypeOf(task.name),
                                ok |-> FALSE, seen |-> task.seen,
                                status |-> events[task.event].status])
    /\ task' = [task EXCEPT !.pc = "blocked"]
    /\ UNCHANGED <<now, events, bookings, nextId, lockE, pc, op, loc, pend, sent, res, prior,
                   queue, nupdates, users, logs, nextLog, sched, taken, ntasks, outcomes,
                   sweeps, nticks, ndeletes, nfanouts>>
    /\ UNCHANGED xvars

NextSilent ==
    \/ \E c \in NotifyCalls, u \in Users, e \in EventIds : CreateCall(c, u, e)
    \/ \E c \in NotifyCalls : CreateLock(c)
    \/ \E c \in NotifyCalls : CreateCount(c)
    \/ \E c \in NotifyCalls : CreateGetOrCreate(c)
    \/ \E c \in NotifyCalls : CreateSave(c)
    \/ \E c \in NotifyCalls : CreateNotify(c)
    \/ \E c \in NotifyCalls : CreateCommit(c)
    \/ \E c \in NotifyCalls, u \in Users, e \in EventIds : CancelGet(c, u, e)
    \/ \E c \in NotifyCalls : CancelSave(c)
    \/ \E c \in NotifyCalls : CancelNotify(c)
    \/ \E c \in NotifyCalls : CancelCommit(c)
    \/ \E u \in Users : DeleteUser(u)
    \/ TakeQueued
    \/ \E u \in Users, e \in EventIds : TakeReminder(u, e)
    \/ ReminderCheck
    \/ \E tr \in Transport : Dispatch(tr)
    \/ DispatchHangs

\* Requests and the worker, with a mail service that may never answer.
SpecSilent == InitDispatch /\ [][NextSilent]_vars

\* ------------------------------------------------------ the worker pool

\* celery.py 14-22: the four send_* tasks are routed to the queue "fast";
\* the processes of the pool that serves it take its messages in turn and run
\* them side by side.
WorkerTake(w) ==
    /\ wtask[w] = NoMsg
    /\ taken < Len(queue)
    /\ LET m == queue[taken + 1] IN
       wtask' = [wtask EXCEPT ![w] = [type |-> m.type, user |-> m.user,
                                      event |-> m.event, pos |-> taken + 1]]
    /\ taken' = taken + 1
    /\ UNCHANGED <<now, events, bookings, nextId, lockE, pc, op, loc, pend, sent, res, prior,
                   queue, nupdates, users, logs, nextLog, mails, sched, task, ntasks,
                   outcomes, sweeps, nticks, ndeletes, nfanouts>>
    /\ UNCHANGED <<finishes, mailsvc, ratings, ratings_count, rates>>

\* tasks.py 62-91 and 16-59: the process runs send_booking_notification or
\* send_cancel_notification for its message: the attempt, then the create.
WorkerRun(w, tr) ==
    /\ wtask[w] # NoMsg
    /\ LET m == wtask[w]
           att == Attempt(m.user, m.event, tr)
           cr == CreateResult(m.user, m.event)
       IN /\ mails' = IF att.called
                         THEN Append(mails, [task |-> m.pos, user |-> m.user,
                                             event |-> m.event, type |-> m.type,
                                             ok |-> att.success, seen |-> "none",
                                             status |-> events[m.event].status])
                         ELSE mails
          /\ IF cr = "created"
                THEN /\ logs' = logs \cup {LogRow(nextLog, m.user, m.event, m.type, att,
                                                  now, m.pos)}
                     /\ nextLog' = nextLog + 1
                ELSE UNCHANGED <<logs, nextLog>>
          /\ outcomes' = Append(outcomes,
                [id |-> m.pos, name |-> TaskOf(m.type), user |-> m.user,
                 event |-> m.event, result |-> IF cr = "created" THEN "returned" ELSE cr,
                 attempts |-> 1, k |-> 0, report |-> NoReport])
    /\ wtask' = [wtask EXCEPT ![w] = NoMsg]
    /\ UNCHANGED <<now, events, bookings, nextId, lockE, pc, op, loc, pend, sent, res, prior,
                   queue, nupdates, users, sched, taken, task, ntasks, sweeps, nticks,
                   ndeletes, nfanouts>>
    /\ UNCHANGED <<finishes, mailsvc, ratings, ratings_count, rates>>

InitWorkers == Seeded(2, 3, {})

\* The requests of the pool runs: enough for a booking and its cancellation.
PoolCalls == 1..(MaxNotifyCalls + 1)

NextWorkers ==
    \/ \E c \in PoolCalls, u \in Users, e \in EventIds : CreateCall(c, u, e)
    \/ \E c \in PoolCalls : CreateLock(c)
    \/ \E c \in PoolCalls : CreateCount(c)
    \/ \E c \in PoolCalls : CreateGetOrCreate(c)
    \/ \E c \in PoolCalls : CreateSave(c)
    \/ \E c \in PoolCalls : CreateNotify(c)
    \/ \E c \in PoolCalls : CreateCommit(c)
    \/ \E c \in PoolCalls, u \in Users, e \in EventIds : CancelGet(c, u, e)
    \/ \E c \in PoolCalls : CancelSave(c)
    \/ \E c \in PoolCalls : CancelNotify(c)
    \/ \E c \in PoolCalls : CancelCommit(c)
    \/ \E w \in Workers : WorkerTake(w)
    \/ \E w \in Workers, tr \in Transport : WorkerRun(w, tr)

\* Requests and the processes of the "fast" pool.
SpecWorkers == InitWorkers /\ [][NextWorkers]_vars

\* ------------------------------------------------------ the mail service

MaxMailCalls == 2

\* server.py 24: the variables EmailServicer.__init__ requires.
required_env_vars == {"SMTP_HOST", "SMTP_PORT", "SMTP_USER", "SMTP_PASSWORD"}

\* What the .env file can give each variable ("" is unset or empty).
EnvValues ==
    [SMTP_HOST : {"", "smtp"}, SMTP_PORT : {"", "0", "587", "x"},
     SMTP_USER : {"", "user"}, SMTP_PASSWORD : {"", "secret"},
     DEFAULT_SENDER : {"", "noreply"}]

\* int(os.environ["SMTP_PORT"]): the strings int() accepts, and their values.
IsInt(str) == str \in {"0", "587"}
int(str) == IF str = "0" THEN 0 ELSE 587

\* server.py 12: load_dotenv("../.env") when the module is loaded.
LoadEnv(env) ==
    /\ mailsvc.state = "new"
    /\ mailsvc' = [mailsvc EXCEPT !.env = env, !.state = "loaded"]
    /\ UNCHANGED <<now, events, bookings, nextId, lockE, pc, op, loc, pend, sent, res, prior,
                   queue, nupdates>>
    /\ UNCHANGED nvars
    /\ UNCHANGED <<finishes, wtask, ratings, ratings_count, rates>>

\* server.py 22-40: EmailServicer.__init__ raises RuntimeError when a required
\* variable is unset or empty, and re-raises the ValueError of int().
ServicerRaises(env) ==
    \/ \E var \in required_env_vars : env[var] = ""
    \/ ~IsInt(env.SMTP_PORT)

\* server.py 79-93: serve() builds the servicer and starts the server; an
\* exception of EmailServicer() ends the process before it listens.
Serve ==
    /\ mailsvc.state = "loaded"
    /\ mailsvc' =
          IF ServicerRaises(mailsvc.env)
             THEN [mailsvc EXCEPT !.state = "crashed"]
             ELSE [mailsvc EXCEPT
                     !.state = "up",
                     !.email_sender = [smtp_host |-> mailsvc.env.SMTP_HOST,
                                       smtp_port |-> int(mailsvc.env.SMTP_PORT),
                                       smtp_user |-> mailsvc.env.SMTP_USER,
                                       smtp_password |-> mailsvc.env.SMTP_PASSWORD]]
    /\ UNCHANGED <<now, events, bookings, nextId, lockE, pc, op, loc, pend, sent, res, prior,
                   queue, nupdates>>
    /\ UNCHANGED nvars
    /\ UNCHANGED <<finishes, wtask, ratings, ratings_count, rates>>

\* email_sender.py 35-37: not all([host, port, user, password]).
Unconfigured(es) ==
    es.smtp_host = "" \/ es.smtp_port = 0 \/ es.smtp_user = "" \/ es.smtp_password = ""

\* server.py 42-76 and email_sender.py 21-61: what the service answers to
\* one SendEmail request.  sender is request.sender_email, smtp what the SMTP
\* server does with the message.
\*   success: EmailResponse.success;  logged: the message was only logged;
\*   smtp: the message was handed to the SMTP server.
Answer(svc, sender, smtp) ==
    IF (IF sender # "" THEN sender ELSE svc.env.DEFAULT_SENDER) = ""
       THEN [answered |-> TRUE, success |-> FALSE, logged |-> FALSE, smtp |-> FALSE]
    ELSE IF Unconfigured(svc.email_sender)
       THEN [answered |-> TRUE, success |-> TRUE, logged |-> TRUE, smtp |-> FALSE]
    ELSE [answered |-> TRUE, success |-> smtp = "ok", logged |-> FALSE, smtp |-> TRUE]

\* grpc_client.py 46-59: one stub.SendEmail call of the dispatcher.  No
\* process listens unless the service is up: the call raises RpcError and
\* send_email returns False.
SendEmailCall(sender, smtp) ==
    /\ mailsvc.state # "new"
    /\ Len(mailsvc.calls) < MaxMailCalls
    /\ LET a == IF mailsvc.state = "up"
                   THEN Answer(mailsvc, sender, smtp)
                   ELSE [answered |-> FALSE, success |-> FALSE, logged |-> FALSE,
                         smtp |-> FALSE]
       IN mailsvc' = [mailsvc EXCEPT !.calls = Append(@, a)]
    /\ UNCHANGED <<now, events, bookings, nextId, lockE, pc, op, loc, pend, sent, res, prior,
                   queue, nupdates>>
    /\ UNCHANGED nvars
    /\ UNCHANGED <<finishes, wtask, ratings, ratings_count, rates>>

NextMail ==
    \/ \E env \in EnvValues : LoadEnv(env)
    \/ Serve
    \/ \E sender \in {"", "noreply@example.com"}, smtp \in {"ok", "error"} :
          SendEmailCall(sender, smtp)

\* The mail service and the calls it gets.
SpecMail == Init /\ [][NextMail]_vars

\* ----------------------------------------------------------- the ratings

MaxRates == 2
MaxAdminRatings == 2

\* The scores of the runs (the serializer lets 1..10 through).
Scores == {1, 10}

\* rating.py 19: def rate_event(user, event_id, score, comment="").
RateEventParams == {"user", "event_id", "score", "comment"}
RateEventRequired == {"user", "event_id", "score"}

\* views.py 535-537 and 576-578: rate_event(user=..., event=event, data=...).
ViewKwargs == {"user", "event", "data"}

\* A call raises TypeError when it passes a keyword that is no parameter or
\* leaves a required parameter out.
CallRaises(kwargs) ==
    kwargs \ RateEventParams # {} \/ RateEventRequired \ kwargs # {}

\* rating.py 44: event.bookings.filter(user=user, cancelled_at__isnull=True).exists()
attended(u, e) == \E b \in ActiveBookings(e) : b.user = u

\* rating.py 37-54: what the body of rate_event ends with.
RateResult(u, e) ==
    IF e \notin DOMAIN events THEN "DoesNotExist"
    ELSE IF events[e].status # FINISHED THEN "EventNotRatable"
    ELSE IF ~attended(u, e) THEN "UserNotAttended"
    ELSE "ok"

\* rating.py 50-52: Rating.objects.update_or_create(user, event, defaults).
update_or_create(rows, u, e, score) ==
    {r \in rows : ~(r.user = u /\ r.event = e)}
       \cup {[user |-> u, event |-> e, score |-> score]}

\* models.py 174-187: update_event_rating, on post_save and post_delete of a
\* Rating: the event's ratings_count is counted again.
update_event_rating(rows, e) ==
    [ratings_count EXCEPT ![e] = Cardinality({r \in rows : r.event = e})]

\* views.py 525-552 (POST rate) and 567-592 (PUT, PATCH rating): the view
\* finds the event, validates the score and calls rate_event; it catches
\* EventNotRatable and UserNotAttended only.
Rate(u, e, score) ==
    /\ Len(rates) < MaxRates
    /\ u \in users
    /\ e \in DOMAIN events
    /\ LET result == IF CallRaises(ViewKwargs) THEN "TypeError" ELSE RateResult(u, e)
           rows == IF result = "ok" THEN update_or_create(ratings, u, e, score)
                                    ELSE ratings
       IN /\ ratings' = rows
          /\ ratings_count' = IF result = "ok" THEN update_event_rating(rows, e)
                                                ELSE ratings_count
          /\ rates' = Append(rates, [user |-> u, event |-> e, score |-> score,
                                      result |-> result])
    /\ UNCHANGED <<now, events, bookings, nextId, lockE, pc, op, loc, pend, sent, res, prior,
                   queue, nupdates>>
    /\ UNCHANGED nvars
    /\ UNCHANGED <<finishes, wtask, mailsvc>>

\* events/admin.py 47-48: a Rating added through the admin site (one per
\* pair: unique_together).
AdminAddRating(u, e, score) ==
    /\ Cardinality(ratings) < MaxAdminRatings
    /\ u \in users
    /\ e \in DOMAIN events
    /\ ~\E r \in ratings : r.user = u /\ r.event = e
    /\ ratings' = ratings \cup {[user |-> u, event |-> e, score |-> score]}
    /\ ratings_count' = update_event_rating(ratings', e)
    /\ UNCHANGED <<now, events, bookings, nextId, lockE, pc, op, loc, pend, sent, res, prior,
                   queue, nupdates>>
    /\ UNCHANGED nvars
    /\ UNCHANGED <<finishes, wtask, mailsvc, rates>>

\* views.py 594-599: DELETE rating removes the caller's Rating of the event.
RatingDelete(u, e) ==
    /\ u \in users
    /\ e \in DOMAIN events
    /\ \E r \in ratings : r.user = u /\ r.event = e
    /\ ratings' = {r \in ratings : ~(r.user = u /\ r.event = e)}
    /\ ratings_count' = update_event_rating(ratings', e)
    /\ UNCHANGED <<now, events, bookings, nextId, lockE, pc, op, loc, pend, sent, res, prior,
                   queue, nupdates>>
    /\ UNCHANGED nvars
    /\ UNCHANGED <<finishes, wtask, mailsvc, rates>>

InitRate == Seeded(2, 3, {})

NextRate ==
    \/ \E u \in Users, e \in EventIds, score \in Scores : Rate(u, e, score)
    \/ \E u \in Users, e \in EventIds, score \in Scores : AdminAddRating(u, e, score)
    \/ \E u \in Users, e \in EventIds : RatingDelete(u, e)
    \/ \E e \in EventIds, s \in Status : UpdateEventStatus(e, s)

\* The rating requests, the admin site and the organizer.
SpecRate == InitRate /\ [][NextRate]_vars

\* ---------------------------------------------------- the periodic tasks

\* The start times event 1 is given.
StartTimes == {2, 3, 4, Day + 4}

InitSweep == \E s1 \in StartTimes : Seeded(s1, 4, {})

NextSweep ==
    \/ \E d \in {Hour, FinishPeriod, Day} : Pass(d)
    \/ \E e \in EventIds, s \in Status : UpdateEventStatus(e, s)
    \/ \E e \in EventIds, type \in {REMINDER, BOOKING} :
          AdminAddLog(CHOOSE u \in users : TRUE, e, type)
    \/ \E u \in Users : DeleteUser(u)
    \/ \E e \in EventIds : DeleteEvent(e)
    \/ ScheduleReminders
    \/ FinishEvents

\* The periodic tasks, the clock, and what organizers, users and the admin do.
SpecSweep == InitSweep /\ [][NextSweep]_vars

NextSweepFault ==
    \/ \E d \in {Hour, FinishPeriod, Day} : Pass(d)
    \/ \E e \in EventIds, s \in Status : UpdateEventStatus(e, s)
    \/ ScheduleReminders
    \/ \E u \in Users, e \in EventIds : ScheduleRemindersFails(u, e)

\* schedule_reminders with a broker that can refuse a publish.
SpecSweepFault == InitSweep /\ [][NextSweepFault]_vars

\* ------------------------------------------------------------ claims

\* Requests that have arrived.
Arrived == {c \in Calls : pc[c] # "new"}

OkCalls(S) == {c \in S : res[c].result = "ok"}

\* c and d overlapped: neither had ended when the other arrived.
Overlap(c, d) == c # d /\ c \in Arrived /\ d \in Arrived
                 /\ c \notin prior[d] /\ d \notin prior[c]

\* C1: in every reachable state, under any interleaving of create_booking and
\* cancel_booking calls, the number of Booking rows of an event with
\* cancelled_at null is at most the event's seats.
C1_NoOverbooking ==
    \A e \in DOMAIN events : ActiveBookingsCount(e) <= events[e].seats

\* C1 happens: an event is full, and a create_booking on it was refused
\* while a cancel_booking on it was in flight.
C1_Witness ==
    \E e \in DOMAIN events :
        /\ ActiveBookingsCount(e) = events[e].seats
        /\ \E c, d \in Calls :
              /\ Overlap(c, d)
              /\ op[c].event = e /\ op[d].event = e
              /\ op[c].name = "create" /\ res[c].result = "NoSeats"
              /\ op[d].name = "cancel" /\ pc[d] = "x_commit"

\* The scenario of C2 on event e: nothing but create_booking calls on e by
\* distinct users, more of them than seats, all ended, the event bookable
\* throughout (never updated, its start not reached).
C2_Scenario(e) ==
    /\ Arrived # {}
    /\ \A c \in Arrived : pc[c] = "done" /\ op[c].name = "create" /\ op[c].event = e
    /\ \A c, d \in Arrived : c # d => op[c].user # op[d].user
    /\ Cardinality(Arrived) > events[e].seats
    /\ nupdates = 0
    /\ events[e].status = EXPECTED /\ events[e].start_at > now

\* C2: when M > N create_booking calls by M distinct users race for a bookable
\* event with N seats and no bookings, exactly N return a booking, exactly
\* M - N raise NoSeats, and N bookings are active at the end.
C2_ExactlyNReserved ==
    \A e \in DOMAIN events :
        C2_Scenario(e) =>
            /\ Cardinality(OkCalls(Arrived)) = events[e].seats
            /\ Cardinality({c \in Arrived : res[c].result = "NoSeats"})
                   = Cardinality(Arrived) - events[e].seats
            /\ ActiveBookingsCount(e) = events[e].seats

\* C2 happens: three users raced for the two seats of event 1, all three
\* calls in flight at once.
C2_Witness ==
    /\ C2_Scenario(1)
    /\ events[1].seats >= 2
    /\ \A c, d \in Arrived : c # d => Overlap(c, d)
    /\ \E c \in Arrived : res[c].result = "NoSeats"

\* create_booking c is between the start of its check and its commit.
InCheckAndWrite(c) == pc[c] \in {"c_count", "c_get", "c_save", "c_notify", "c_commit"}

\* This step is a statement of request d that reads or writes Booking rows.
ReadsOrWritesBookings(d) ==
    /\ pc'[d] # pc[d]
    /\ \/ pc[d] \in {"c_count", "c_get", "c_save", "c_commit", "x_save", "x_commit"}
       \/ pc[d] = "new" /\ op'[d].name = "cancel"

\* C3 as claimed: between the start of the check of a create_booking and its
\* commit, no other create_booking or cancel_booking on the same event reads
\* or writes the event's bookings.
C3_AtomicUnit ==
    [][\A c \in Calls : InCheckAndWrite(c) =>
          \A d \in Calls \ {c} :
              op'[d].event = op[c].event => ~ReadsOrWritesBookings(d)]_vars

\* C3 amended: between the start of the check of a create_booking and its
\* commit, no other create_booking on the same event reads or writes the
\* event's bookings; a cancel_booking may, and it never raises the number of
\* active bookings of the event.
C3_AtomicAmongCreates ==
    [][\A c \in Calls : InCheckAndWrite(c) =>
          \A d \in Calls \ {c} :
              (op'[d].event = op[c].event /\ ReadsOrWritesBookings(d)) =>
                  /\ op'[d].name = "cancel"
                  /\ ActiveBookingsCount(op[c].event)' <= ActiveBookingsCount(op[c].event)]_vars

\* C3 happens: a create_booking has counted the active bookings and not yet
\* committed, and a cancel_booking has lowered the count under it.
C3_Witness ==
    \E c \in Calls :
        /\ pc[c] \in {"c_get", "c_save", "c_notify", "c_commit"}
        /\ ActiveBookingsCount(op[c].event) < loc[c].active_bookings_count

\* C4: a create_booking that finds the event Finished or Cancelled, or with
\* start_at <= now, raises EventFinished and reserves nothing: no Booking row
\* is created or reactivated and no notification is published (the event is
\* judged when the call reads it, under the row lock).
C4_StatusGated ==
    [][\A c \in Calls :
          (/\ pc[c] = "c_lock" /\ pc'[c] # "c_lock"
           /\ op[c].event \in DOMAIN events
           /\ \/ events[op[c].event].status \in {FINISHED, CANCELLED}
              \/ events[op[c].event].start_at <= now)
          => /\ pc'[c] = "done"
             /\ res'[c].result = "EventFinished"
             /\ bookings' = bookings
             /\ pend'[c] = NoPend
             /\ queue' = queue
             /\ sent'[c] = 0]_vars

\* C4 happens: a create_booking was refused for the start time alone, on an
\* event that is Expected, holds a booking and has a free seat.
C4_Witness ==
    \E c \in Calls :
        /\ op[c].name = "create" /\ res[c].result = "EventFinished"
        /\ nupdates = 0
        /\ ActiveBookingsCount(op[c].event) > 0
        /\ ActiveBookingsCount(op[c].event) < events[op[c].event].seats

\* The scenario of C5: user u books event e (c0), then calls cancel_booking
\* twice in sequence (c1, then c2); no other request names the event.
C5_Scenario(c0, c1, c2) ==
    /\ op[c0].name = "create" /\ res[c0].result = "ok"
    /\ op[c1].name = "cancel" /\ op[c2].name = "cancel"
    /\ op[c1].user = op[c0].user /\ op[c1].event = op[c0].event
    /\ op[c2].user = op[c0].user /\ op[c2].event = op[c0].event
    /\ c0 \in prior[c1] /\ c1 \in prior[c2] /\ pc[c2] = "done"
    /\ \A d \in Arrived \ {c0, c1, c2} : op[d].event # op[c0].event

\* The cancellation intents published for a pair.
CancellationsOf(u, e) ==
    {i \in 1..Len(queue) :
        queue[i].type = "cancellation" /\ queue[i].user = u /\ queue[i].event = e}

\* C5: cancel_booking called twice in sequence on one active booking succeeds
\* the first time and raises BookingNotFound the second; the active count of
\* the event drops by exactly one and exactly one cancellation is published.
C5_IdempotentCancel ==
    \A c0, c1, c2 \in Calls :
        C5_Scenario(c0, c1, c2) =>
            /\ res[c1].result = "ok"
            /\ res[c2].result = "BookingNotFound"
            /\ res[c1].count = res[c0].count - 1
            /\ res[c2].count = res[c1].count
            /\ sent[c1] = 1 /\ sent[c2] = 0
            /\ Cardinality(CancellationsOf(op[c0].user, op[c0].event)) = 1

\* C5 happens: book, cancel, cancel again have all ended.
C5_Witness == \E c0, c1, c2 \in Calls : C5_Scenario(c0, c1, c2)

\* The pair of create_booking c has exactly one row after this step, active.
OneActiveRowAfter(c) ==
    \E b \in bookings' :
        /\ b.user = op[c].user /\ b.event = op[c].event
        /\ b.cancelled_at = Null
        /\ \A b2 \in bookings' : (b2.user = b.user /\ b2.event = b.event) => b2 = b

\* Every cancel_booking of the pair of c had ended when c was called.
NoCancelOverlaps(c) ==
    \A d \in Arrived \ {c} :
        (op[d].name = "cancel" /\ op[d].user = op[c].user /\ op[d].event = op[c].event)
            => d \in prior[c]

C7_SoftDelete ==
    [][/\ \A b \in bookings : \E b2 \in bookings' :
              b2.id = b.id /\ b2.user = b.user /\ b2.event = b.event
       /\ \A c \in Calls :
              (pc[c] = "x_commit" /\ pc'[c] = "done") =>
                  /\ \E b \in bookings' :
                        /\ b.id = loc[c].booking
                        /\ b.user = op[c].user /\ b.event = op[c].event
                        /\ b.cancelled_at # Null
                  /\ \A b \in bookings : b.id # loc[c].booking => b \in bookings']_vars

\* C7 happens: a cancelled row stays in the table beside an active row of
\* another user on the same event.
C7_Witness ==
    \E b1, b2 \in bookings :
        /\ b1.event = b2.event /\ b1.user # b2.user
        /\ b1.cancelled_at # Null /\ b2.cancelled_at = Null
        /\ \E c \in Calls : op[c].name = "cancel" /\ res[c].result = "ok"
                              /\ loc[c].booking = b1.id

\* C8 as claimed: every booking or cancellation intent on the queue was
\* published by a call whose transaction has committed.
C8_PublishedAfterCommit ==
    \A i \in 1..Len(queue) :
        queue[i].by # NoCall => pc[queue[i].by] = "done"

\* C9 as claimed: a call that passed its checks (it holds a Booking instance)
\* ends with success, whatever the notification path does.
C9_SeatOperationAlone ==
    \A c \in Calls :
        (pc[c] = "done" /\ loc[c].booking # 0) => res[c].result = "ok"

\* C10 as claimed: a create_booking publishes a booking intent exactly when
\* its transaction creates or reactivates a Booking row.
C10_NotifyIffBooked ==
    \A c \in Calls :
        pc[c] = "c_commit" => (sent[c] = 1 <=> pend[c].kind # "none")

\* This step is one call of _send_notification by the task the worker runs.
Dispatched ==
    /\ task # NoTask
    /\ task' # task
    /\ \/ task.pc = "dispatch"
       \/ task.pc = "loop" /\ task.todo # {}

\* The rows this step inserts.
NewRows == logs' \ logs

\* The error detail a row carries.
ErrorDetail(r) == IF "error_message" \in DOMAIN r THEN r.error_message ELSE "None"

\* C11 as claimed: every call of _send_notification (by send_booking_notification,
\* send_cancel_notification, a send_reminder that is not skipped, per recipient
\* of send_event_cancelled_notification) inserts exactly one NotificationLog
\* row, whatever the lookups and the transport did, and removes none.
C11_OneRowPerAttempt ==
    [][Dispatched => (Cardinality(NewRows) = 1 /\ logs \subseteq logs')]_vars

\* C12 as claimed: a NotificationLog row, once created, is never changed and
\* never removed, by any step.
C12_AppendOnly ==
    [][\A r \in logs : r \in logs']_vars

\* C13 as claimed: a dispatch whose user or event no longer exists calls the
\* transport zero times, inserts one row with is_sent false, an error message
\* and the placeholder message, and raises nothing.
C13_MissingReferenceRecorded ==
    [][(/\ task # NoTask /\ task.pc = "dispatch" /\ task' # task
        /\ (task.user \notin users \/ task.event \notin DOMAIN events))
       => /\ mails' = mails
          /\ \E r \in NewRows :
                /\ NewRows = {r}
                /\ ~r.is_sent
                /\ ErrorDetail(r) # "None"
                /\ r.message \in {PlaceholderUser, PlaceholderEvent}
          /\ outcomes'[Len(outcomes')].result = "returned"]_vars

\* C14 as claimed: a dispatch whose transport call fails, by an exception or
\* by a negative answer alike, inserts a row with is_sent false, sent_at null
\* and an error detail; one whose transport call succeeds inserts a row with
\* is_sent true, sent_at set and no error detail.
C14_FailureRecorded ==
    [][(Dispatched /\ Len(mails') = Len(mails) + 1)
       => \E r \in NewRows :
             IF mails'[Len(mails')].ok
                THEN r.is_sent /\ r.sent_at # Null /\ ErrorDetail(r) = "None"
                ELSE ~r.is_sent /\ r.sent_at = Null /\ ErrorDetail(r) # "None"]_vars

\* C15 as claimed: a send_event_cancelled_notification that finds its event
\* with k active bookings makes k dispatch attempts, leaves k rows of type
\* event_cancelled, and reports success and failure counts that sum to k.
C15_FanoutIsolation ==
    \A i \in 1..Len(outcomes) :
        LET o == outcomes[i] IN
        (o.name = "send_event_cancelled_notification" /\ o.result # "not found")
            => /\ o.result = "returned"
               /\ o.attempts = o.k
               /\ o.report[1] + o.report[2] = o.k
               /\ ndeletes = 0 =>
                     Cardinality({r \in logs : r.by = o.id /\ r.type = EVENT_CANCELLED}) = o.k

\* C16 as claimed, in the form a finite run refutes: the step that changes an
\* event's status from Expected to Cancelled puts a
\* send_event_cancelled_notification message for that event on the queue
\* (without one, no dispatch for the event is ever run).
C16_CancelTriggersFanout ==
    [][\A e \in DOMAIN events :
          (e \in DOMAIN events' /\ events[e].status = EXPECTED
             /\ events'[e].status = CANCELLED)
          => \E i \in (Len(queue) + 1)..Len(queue') :
                queue'[i].type = EVENT_CANCELLED /\ queue'[i].event = e]_vars

Swept == Len(sweeps') = Len(sweeps) + 1

\* The send_reminder messages this run leaves on the broker.
NewMsgs == sweeps'[Len(sweeps')].msgs

\* C18 as claimed: no (user, event) reminder is scheduled by two runs of
\* schedule_reminders less than 24 hours apart.
C18_ScheduledOnce ==
    \A i, j \in 1..Len(sweeps) :
        (i < j /\ sweeps[j].now - sweeps[i].now < Day)
            => \A m \in sweeps[i].msgs, n \in sweeps[j].msgs :
                  ~(m.user = n.user /\ m.event = n.event)

\* The bookings C19 names for a run at time t: active, on an event that is
\* Expected, starts in (t + 1h, t + 2h] and has no Reminder row of the last
\* 24 hours.
C19_Expected(t) ==
    {b \in bookings :
        /\ b.cancelled_at = Null
        /\ b.event \in DOMAIN events
        /\ events[b.event].status = EXPECTED
        /\ events[b.event].start_at > t + Hour
        /\ events[b.event].start_at <= t + 2 * Hour
        /\ ~\E r \in logs :
              r.event = b.event /\ r.type = REMINDER /\ now - r.created_at <= Day}

\* C19: a run of schedule_reminders at time now schedules one send_reminder
\* for each active booking of an Expected event that starts in
\* (now + 1h, now + 2h] and has no Reminder row of the last 24 hours, for no
\* other booking, and returns their number.
C19_SweepSelection ==
    [][Swept =>
          /\ {[booking |-> m.booking, user |-> m.user, event |-> m.event] : m \in NewMsgs}
                = {[booking |-> b.id, user |-> b.user, event |-> b.event] :
                      b \in C19_Expected(now)}
          /\ Cardinality(NewMsgs) = Cardinality(C19_Expected(now))
          /\ sched' = sched \cup NewMsgs
          /\ sweeps'[Len(sweeps')].count = Cardinality(C19_Expected(now))]_vars

\* C19 happens: a run found both events in its range and scheduled the one
\* booking of one of them, nothing for the other.
C19_Witness ==
    \E i \in 1..Len(sweeps) :
        /\ sweeps[i].events = 2
        /\ sweeps[i].count = 1

\* C20: every reminder a run of schedule_reminders schedules has eta equal to
\* the event's start_at minus one hour and later than the run's now; a booking
\* whose event starts within the hour gets no reminder, and the run starts no
\* dispatch itself.
C20_EtaInFuture ==
    [][Swept =>
          /\ \A m \in NewMsgs :
                /\ m.eta = events[m.event].start_at - Hour
                /\ m.eta > now
          /\ \A b \in bookings :
                (b.event \in DOMAIN events /\ events[b.event].start_at - Hour <= now)
                    => \A m \in NewMsgs : m.booking # b.id
          /\ mails' = mails /\ task' = task]_vars

\* C20 happens: an Expected event with active bookings starts exactly one
\* hour after the run; the run selects the event and schedules nothing.
C20_Witness ==
    /\ Len(sweeps) = 1
    /\ sweeps[1].events = 1 /\ sweeps[1].count = 0
    /\ events[1].status = EXPECTED
    /\ events[1].start_at = sweeps[1].now + Hour
    /\ ActiveBookingsCount(1) > 0
    /\ nextLog = 1 /\ ndeletes = 0 /\ nupdates = 0

\* The step is a run of finish_events.
FinishRan == Len(finishes') = Len(finishes) + 1

\* C21: a run of finish_events at time now sets the status FINISHED on every
\* EXPECTED event that began more than two hours before now and changes
\* nothing else: CANCELLED and FINISHED events, and EXPECTED events that began
\* two hours ago or later, keep every field; no event row appears or
\* disappears; no Booking row changes.
C21_FinishFrame ==
    [][FinishRan =>
          /\ DOMAIN events' = DOMAIN events
          /\ \A e \in DOMAIN events :
                events'[e] =
                   IF events[e].status = EXPECTED /\ events[e].start_at < now - 2 * Hour
                      THEN [events[e] EXCEPT !.status = FINISHED]
                      ELSE events[e]
          /\ bookings' = bookings]_vars

\* A run has just finished one event and left another one EXPECTED, with
\* its bookings in place.
C21_Witness ==
    \E i \in 1..Len(finishes) :
       /\ finishes[i].now = now
       /\ finishes[i].updated = 1
       /\ \E e, f \in DOMAIN events :
             /\ events[e].status = FINISHED /\ events[e].start_at < now - 2 * Hour
             /\ events[f].status = EXPECTED /\ events[f].start_at >= now - 2 * Hour
             /\ ActiveBookings(e) # {} /\ ActiveBookings(f) # {}

\* The status of event e leaves EXPECTED in the step.
LeavesExpected(e) ==
    /\ e \in DOMAIN events /\ e \in DOMAIN events'
    /\ events[e].status = EXPECTED
    /\ events'[e].status # EXPECTED

\* The step publishes a cancel_scheduled_notifications message for event e.
CancelRequested(e) ==
    \E i \in (Len(queue) + 1)..Len(queue') :
       queue'[i].type = "cancel_scheduled" /\ queue'[i].event = e

\* C22: a step publishes a cancel_scheduled_notifications request for an
\* event exactly when it moves the event's status away from EXPECTED, the
\* bulk update of finish_events included.
C22_CancelRequestedOnLeave ==
    [][\A e \in EventIds : LeavesExpected(e) <=> CancelRequested(e)]_vars

\* C23: the status of an event that is CANCELLED or FINISHED never changes
\* again, whatever finish_events and the organizer do.
C23_StatusTerminal ==
    [][\A e \in EventIds :
          (e \in DOMAIN events /\ e \in DOMAIN events' /\ events[e].status # EXPECTED)
             => events'[e].status = events[e].status]_vars

\* Two cancel_booking calls of one pair that overlapped and have both ended.
C28_Scenario(c, d) ==
    /\ Overlap(c, d)
    /\ op[c].name = "cancel" /\ op[d].name = "cancel"
    /\ op[c].user = op[d].user /\ op[c].event = op[d].event
    /\ pc[c] = "done" /\ pc[d] = "done"

\* C28: of two cancel_booking calls of one (user, event) that run
\* concurrently at most one succeeds, the two together publish at most one
\* cancellation intent (exactly one when one succeeds), and once both have
\* ended a booking the same user made by a create_booking that ended in
\* between, after the first cancel and before the second, is still active.
C28_ConcurrentCancel ==
    \A c, d \in Calls :
        C28_Scenario(c, d) =>
            /\ ~(res[c].result = "ok" /\ res[d].result = "ok")
            /\ \A x \in {c, d} : res[x].result \in {"ok", "BookingNotFound"}
            /\ sent[c] + sent[d] = Cardinality(OkCalls({c, d}))
            /\ \A k \in Calls \ {c, d} :
                  (/\ op[k].name = "create" /\ res[k].result = "ok"
                   /\ op[k].user = op[c].user /\ op[k].event = op[c].event
                   /\ pc[k] = "done"
                   /\ \E x, y \in {c, d} : x # y /\ x \in prior[k] /\ k \notin prior[y]
                                           /\ k \in Arrived /\ pc[y] = "done")
                     => \E b \in bookings : b.user = op[k].user /\ b.event = op[k].event
                                            /\ b.cancelled_at = Null

\* C25: a run of schedule_reminders in which the scheduling call of one
\* booking raises still returns its count and still schedules every other
\* booking of its selection.
C25_SweepSurvivesFailure ==
    \A i \in 1..Len(sweeps) :
        sweeps[i].failed # 0 =>
            /\ sweeps[i].returned
            /\ sweeps[i].selected \ {sweeps[i].failed}
                  \subseteq {m.booking : m \in sweeps[i].msgs}

\* C24: when a cancel_booking of a pair was called after a create_booking of
\* the pair had ended, the worker pool never finishes the cancellation
\* notification of the one before the booking notification of the other.
\* (Messages are named by their place in the queue; a task's outcome carries
\* the place of its message.)
C24_CausalOrder ==
    \A p, q \in 1..Len(queue) :
        (/\ queue[p].type = BOOKING /\ queue[q].type = CANCELLATION
         /\ queue[p].user = queue[q].user /\ queue[p].event = queue[q].event
         /\ queue[p].by \in prior[queue[q].by])
          => \A j \in 1..Len(outcomes) :
                outcomes[j].id = q => \E i \in 1..(j - 1) : outcomes[i].id = p

\* An SMTP setting is unset or empty.
SmtpIncomplete(env) == \E var \in required_env_vars : env[var] = ""

\* C26: with an SMTP setting missing the mail service does not fail: it stays
\* available, and every SendEmail request it gets is logged, not handed to
\* an SMTP server, and answered with success.
C26_UnconfiguredFallback ==
    (mailsvc.state # "new" /\ SmtpIncomplete(mailsvc.env)) =>
        /\ mailsvc.state # "crashed"
        /\ \A i \in 1..Len(mailsvc.calls) :
              LET a == mailsvc.calls[i]
              IN a.answered /\ a.success /\ a.logged /\ ~a.smtp

\* The step is a rating request; Rates is the request.
RateRan == Len(rates') = Len(rates) + 1
Rates == rates'[Len(rates')]

\* C27: a rating request of user u for event e whose status is FINISHED and
\* on which u holds an active booking succeeds and leaves exactly one Rating
\* of (u, e), with the score given, and the other Ratings as they were; any
\* other request ends with EventNotRatable or UserNotAttended and leaves the
\* Ratings and every ratings_count as they were.
C27_RateGuarded ==
    [][RateRan =>
          LET u == Rates.user
              e == Rates.event
          IN IF events[e].status = FINISHED
                /\ (\E b \in bookings : b.user = u /\ b.event = e /\ b.cancelled_at = Null)
                THEN /\ Rates.result = "ok"
                     /\ {r \in ratings' : r.user = u /\ r.event = e}
                           = {[user |-> u, event |-> e, score |-> Rates.score]}
                     /\ {r \in ratings' : ~(r.user = u /\ r.event = e)}
                           = {r \in ratings : ~(r.user = u /\ r.event = e)}
                ELSE /\ Rates.result \in {"EventNotRatable", "UserNotAttended"}
                     /\ ratings' = ratings
                     /\ ratings_count' = ratings_count]_vars

\* C29: a task that is about to dispatch ends with its next step, with the
\* one NotificationLog row of the attempt written and the transport called
\* at most once; no task is ever left waiting in a transport call that is
\* not answered.
C29_AttemptEndsRecorded ==
    /\ [][(task # NoTask /\ task.pc = "dispatch" /\ task' # task) =>
             /\ task' = NoTask
             /\ Cardinality({r \in logs' \ logs : r.by = task.id}) = 1
             /\ Len(mails') <= Len(mails) + 1]_vars
    /\ [](task # NoTask => task.pc # "blocked")

\* A run of schedule_reminders took place while event e was in its window.
SweptInWindow(e) ==
    \E i \in 1..Len(sweeps) :
       /\ events[e].start_at > sweeps[i].now + Hour
       /\ events[e].start_at <= sweeps[i].now + 2 * Hour

\* C30: when the clock reaches start_at minus one hour of an EXPECTED event
\* that a run of schedule_reminders has seen in its window, every booking of
\* the event that is active at that moment has a send_reminder message for
\* its user on the broker.
C30_EveryActiveBookingReminded ==
    [][now' # now =>
          \A b \in bookings :
             (/\ b.cancelled_at = Null
              /\ b.event \in DOMAIN events
              /\ events[b.event].status = EXPECTED
              /\ now' = Eta(events[b.event])
              /\ SweptInWindow(b.event))
                => \E m \in sched : m.user = b.user /\ m.event = b.event]_vars

====
